---- MODULE Spec2Model ----
(***************************************************************************)
(* Hospital Management System: appointment booking, availability matching, *)
(* appointment status lifecycle and treatment records.                     *)
(*                                                                         *)
(* The relational store is shared by concurrent request handlers.  Every   *)
(* handler is split at its database round trips: a query reads the         *)
(* committed rows, a commit writes the handler's pending changes.  An ORM  *)
(* object loaded by a handler keeps the column values it was loaded with   *)
(* until that handler commits.                                             *)
(***************************************************************************)
EXTENDS Integers, FiniteSets, Sequences, TLC

(* ------------------------------ bounds -------------------------------- *)

\* number of request handlers that can be in flight at the same time
NumWorkers == 2
\* appointment ids are capped (the seed data uses the first three)
MaxAppointments == 5
\* the calendar advances from day 1 up to this day
MaxDay == 2
MaxUsers == 7
max_requests == 2
window == 2
MaxTime == 4

(* ------------------------- program constants -------------------------- *)

\* timedelta(days=7): the rolling booking horizon
BookingWindowDays == 7

(* ------------------------------ domains ------------------------------- *)

Workers == 1..NumWorkers

\* the browsers that hold a session cookie
Clients == {1, 2}
\* patient profiles created by init_db (demo patient, additional patient)
PatientIds == {1, 2}
\* doctor profiles created by init_db (demo doctor, specialist doctor)
SeedDoctors == {1, 2}
\* doctor ids a caller may pass; 3 has no doctor record
DoctorIds == {1, 2, 3}
\* calendar days: yesterday, the first day, and the two days around the
\* end of the first day's horizon
Dates == {0, 1, 1 + BookingWindowDays, 2 + BookingWindowDays}
\* times of day
Times == {1, 2, 3}
\* the diagnosis form field after strip(): empty or not
Diagnoses == {"", "Flu"}
\* the reason form field and its defaults
PatientReasons == {"Cancelled by patient"}
DoctorReasons == {"Cancelled by doctor"}
\* appointment ids a caller may pass
AppointmentIds == 1..MaxAppointments
\* (doctor_id, available_date, start_time) of the set_doctor_availability
\* calls: the key of the seeded slot, another doctor's, another date's
SlotKeys == {<<1, 1, 1>>, <<2, 1, 1>>, <<1, 2, 1>>}
\* (available_date, start_time, end_time) of the availability form: a past
\* date, the first day with four pairs of times, the day after the first
\* day's horizon
AvailabilityForms ==
    {<<0, 1, 2>>, <<1, 1, 2>>, <<1, 1, 3>>, <<1, 2, 3>>, <<1, 2, 2>>,
     <<2 + BookingWindowDays, 1, 2>>}
\* availability ids a caller may pass
SlotIds == {1, 2, 3}
\* a form field is the text of a day or time, written as that day or time,
\* or one of two texts that are neither: the empty string and a text that
\* strptime rejects
FormMissing == -1
FormMalformed == -2
\* what parse_date and parse_time return for such a text
None == -3
\* (available_date, start_time, end_time) of availability forms with a
\* missing or unparsable field
MalformedForms ==
    {<<FormMissing, 1, 2>>, <<FormMalformed, 1, 2>>, <<1, FormMissing, 2>>,
     <<1, 1, FormMalformed>>}

VARIABLES
    today,        \* date.today()
    doctors,      \* ids of the rows of table doctors
    slots,        \* rows of table doctor_availability
    appts,        \* rows of table appointments
    apptSeq,      \* highest appointments.id (an INSERT gets the next one)
    treatments,   \* rows of table treatments
    treatSeq,     \* highest treatments.id
    req,          \* per worker: the request it is handling
    users,        \* rows of table users
    patients,     \* rows of table patients: id and user_id
    doctorUser,   \* rows of table doctors: id and user_id
    sessions,     \* per browser: the user id in its session cookie, 0 if none
    request_counts, \* the dictionary of one rate_limit decorator
    now           \* time.time(), in seconds

vars == <<today, doctors, slots, appts, apptSeq, treatments, treatSeq, req,
          users, patients, doctorUser, sessions, request_counts, now>>
store == <<doctors, slots, appts, apptSeq, treatments, treatSeq>>
accounts == <<users, patients, doctorUser, sessions>>
limiter == <<request_counts, now>>
site == <<accounts, limiter>>

(* ------------------------------ requests ------------------------------ *)

Idle ==
    [pc |-> "idle", op |-> "none", patient |-> 0, doctor |-> 0, date |-> 0,
     time |-> 0, appt |-> 0, text |-> "", loaded |-> FALSE, day |-> 0,
     slot |-> 0, slot_end |-> 0, slot_avail |-> TRUE, end |-> 0,
     user |-> 0, client |-> 0, role |-> "none", name |-> "", email |-> "",
     current_time |-> 0, shown |-> {}, gone_doctors |-> {}, gone_patients |-> {}, gone_slots |-> {},
     gone_appts |-> {}, gone_treats |-> {},
     res |-> "none", ret |-> 0]

\* the handler returns: its result code and the id of the returned row
\* (the handler's locals are gone)
Finish(code, id) == [Idle EXCEPT !.pc = "done", !.res = code, !.ret = id]

(* ------------------------- outcomes of a request ---------------------- *)

\* get_or_404 aborts the request
NotFound == "404"
\* the ownership check of the doctor and patient routes
Forbidden == "You do not have permission"
CancelError == "Error cancelling appointment"
\* the date checks of the booking form
FormShown == "book_appointment.html"
WindowError == "Cannot book appointments for past dates. / Can only book appointments within next 7 days."
\* the messages of Appointment.create_appointment
AlreadyBooked == "Doctor is not available at this time"
NotAvailable == "Doctor is not available on this date/time"
Booked == "Appointment booked successfully!"
\* the can_be_cancelled / can_be_completed checks
WrongStatus == "This appointment cannot be cancelled / completed. Current status"
Cancelled == "Appointment cancelled successfully."
\* the messages of the completion route and Treatment.create_treatment
DiagnosisRequired == "Diagnosis is required."
AppointmentNotFound == "Appointment not found."
TreatmentExists == "Treatment record already exists for this appointment."
Treated == "Treatment record created successfully!"
StoreError == "Error creating treatment"
CreateError == "Error creating appointment"
\* the availability routes and DoctorAvailability.set_doctor_availability
AvailabilityError == "Cannot set availability for past dates. / Can only set availability for next 7 days. / End time must be after start time."
AvailabilityAdded == "Availability added successfully!"
AvailabilityStoreError == "Error adding availability"
AvailabilityDeleted == "Availability slot deleted successfully."
ReturnedNone == "None"
Raised == "StaleDataError"
\* cleanup_old_data
Purged == "Cleaned up past availability slots"
\* the admin route that deletes a doctor
DoctorDeleted == "Doctor deleted successfully."
DeleteError == "Error deleting doctor"

(* --------------------------- seed (init_db) --------------------------- *)

SeedSlots ==
    {[id |-> 1, doctor |-> 1, date |-> 1, start |-> 1, end |-> 2, avail |-> TRUE]}

SeedAppointments ==
    {[id |-> 1, patient |-> 1, doctor |-> 1, date |-> 0, time |-> 1,
      status |-> "Completed", reason |-> "none"],
     [id |-> 2, patient |-> 1, doctor |-> 1, date |-> 1, time |-> 3,
      status |-> "Booked", reason |-> "none"],
     [id |-> 3, patient |-> 2, doctor |-> 1, date |-> 0, time |-> 2,
      status |-> "Cancelled", reason |-> "Patient had to travel urgently"]}

SeedTreatments ==
    {[id |-> 1, appointment_id |-> 1, diagnosis |-> "Common Cold"]}

\* the accounts of the sample data: the admin, the doctors and the patients
SeedUsers ==
    {[id |-> 1, username |-> "admin", email |-> "admin@hospital.com",
      role |-> "admin", active |-> TRUE],
     [id |-> 2, username |-> "doctor", email |-> "doctor@hospital.com",
      role |-> "doctor", active |-> TRUE],
     [id |-> 3, username |-> "doctor2", email |-> "doctor2@hospital.com",
      role |-> "doctor", active |-> TRUE],
     [id |-> 4, username |-> "patient", email |-> "patient@example.com",
      role |-> "patient", active |-> TRUE],
     [id |-> 5, username |-> "patient2", email |-> "patient2@example.com",
      role |-> "patient", active |-> TRUE]}

SeedDoctorUser == {[id |-> 1, user |-> 2], [id |-> 2, user |-> 3]}

SeedPatients == {[id |-> 1, user |-> 4], [id |-> 2, user |-> 5]}

Init ==
    /\ today = 1
    /\ doctors = SeedDoctors
    /\ slots = SeedSlots
    /\ appts = SeedAppointments
    /\ apptSeq = Cardinality(SeedAppointments)
    /\ treatments = SeedTreatments
    /\ treatSeq = Cardinality(SeedTreatments)
    /\ req = [p \in Workers |-> Idle]
    /\ users = SeedUsers
    /\ patients = SeedPatients
    /\ doctorUser = SeedDoctorUser
    /\ sessions = [c \in Clients |-> 0]
    /\ request_counts = {}
    /\ now = 0

(* ------------------------------ queries ------------------------------- *)

\* Appointment.query.get(id)
ApptIds == {a.id : a \in appts}
GetAppt(id) == CHOOSE a \in appts : a.id = id

\* can_be_cancelled refusing only a Cancelled appointment
can_be_cancelled_not_cancelled(a) == a.status # "Cancelled"

\* Appointment.can_be_cancelled
can_be_cancelled(a) == a.status = "Booked"

\* can_be_completed accepting a Cancelled appointment as well
can_be_completed_or_cancelled(a) == a.status \in {"Booked", "Cancelled"}

\* can_be_completed refusing only a Completed appointment
can_be_completed_not_completed(a) == a.status # "Completed"

\* Appointment.can_be_completed
can_be_completed(a) == a.status = "Booked"

\* check_double_booking with the status literal misspelt
check_double_booking_lowercase(doc, d, t) ==
    ~ \E a \in appts : /\ a.doctor = doc
                       /\ a.date = d
                       /\ a.time = t
                       /\ a.status = "booked"

\* check_double_booking counting appointments of every status
check_double_booking_any_status(doc, d, t) ==
    ~ \E a \in appts : /\ a.doctor = doc
                       /\ a.date = d
                       /\ a.time = t

\* Appointment.check_double_booking: TRUE iff the time slot is free
check_double_booking(doc, d, t) ==
    ~ \E a \in appts : /\ a.doctor = doc
                       /\ a.date = d
                       /\ a.time = t
                       /\ a.status = "Booked"

\* is_available_on with an exclusive end bound
is_available_on_half_open(doc, d, t) ==
    \E s \in slots : /\ s.doctor = doc
                     /\ s.date = d
                     /\ s.avail
                     /\ s.start <= t
                     /\ t < s.end

\* is_available_on without the filter on the date
is_available_on_any_date(doc, d, t) ==
    \E s \in slots : /\ s.doctor = doc
                     /\ s.avail
                     /\ s.start <= t
                     /\ t <= s.end

\* Doctor.is_available_on
is_available_on(doc, d, t) ==
    \E s \in slots : /\ s.doctor = doc
                     /\ s.date = d
                     /\ s.avail
                     /\ s.start <= t
                     /\ t <= s.end

\* the date checks with the last day of the horizon left out
InBookingWindow_exclusive(d, day) == ~ (d < day) /\ ~ (d >= day + BookingWindowDays)

\* the date checks of the booking form
InBookingWindow(d, day) == ~ (d < day) /\ ~ (d > day + BookingWindowDays)

\* the date checks of the add-availability form
InAvailabilityWindow(d, day) == ~ (d < day) /\ ~ (d > day + BookingWindowDays)

\* get_availability_for_next_7_days with the last day left out
get_availability_for_next_7_days_exclusive(doc, day) ==
    {s \in slots : /\ s.doctor = doc
                   /\ s.date >= day
                   /\ s.date < day + BookingWindowDays
                   /\ s.avail = TRUE}

\* Doctor.get_availability_for_next_7_days
get_availability_for_next_7_days(doc, day) ==
    {s \in slots : /\ s.doctor = doc
                   /\ s.date >= day
                   /\ s.date <= day + BookingWindowDays
                   /\ s.avail = TRUE}

\* Treatment.query.filter_by(appointment_id=id).first()
HasTreatment(id) == \E t \in treatments : t.appointment_id = id

\* booking requests that may still insert an appointment
BookingsInFlight ==
    Cardinality({p \in Workers : req[p].pc \in {"check_double", "check_avail", "insert"}})

(* ------------------------------ booking ------------------------------- *)

\* POST /patient/appointments/book/<doctor_id> with a well-formed date and
\* time, up to the call of Appointment.create_appointment
book_appointment(p, pat, doc, d, t) ==
    /\ req[p].pc = "idle"
    /\ apptSeq + BookingsInFlight < MaxAppointments
    /\ LET r == [Idle EXCEPT !.op = "book_appointment", !.patient = pat,
                             !.doctor = doc, !.date = d, !.time = t,
                             !.day = today]
       IN  req' = [req EXCEPT ![p] =
                IF doc \notin doctors THEN Finish(NotFound, 0)
                ELSE IF ~ InBookingWindow(d, today) THEN Finish(WindowError, 0)
                ELSE [r EXCEPT !.pc = "check_double", !.loaded = TRUE]]
    /\ UNCHANGED <<site, today, store>>

\* GET /patient/appointments/book/<doctor_id>: the form lists the slots
\* get_availability_for_next_7_days returns
book_appointment_form(p, doc) ==
    /\ req[p].pc = "idle"
    /\ req' = [req EXCEPT ![p] =
            IF doc \notin doctors THEN Finish(NotFound, 0)
            ELSE [Finish(FormShown, 0) EXCEPT
                    !.shown = {s.id : s \in get_availability_for_next_7_days(doc, today)}]]
    /\ UNCHANGED <<site, today, store>>

\* Appointment.create_appointment called directly
create_appointment(p, pat, doc, d, t) ==
    /\ req[p].pc = "idle"
    /\ apptSeq + BookingsInFlight < MaxAppointments
    /\ req' = [req EXCEPT ![p] =
            [Idle EXCEPT !.pc = "check_double", !.op = "create_appointment",
                         !.patient = pat, !.doctor = doc, !.date = d,
                         !.time = t]]
    /\ UNCHANGED <<site, today, store>>

\* create_appointment: the double-booking query
CheckDoubleBooking(p) ==
    /\ req[p].pc = "check_double"
    /\ req' = [req EXCEPT ![p] =
            IF ~ check_double_booking(req[p].doctor, req[p].date, req[p].time)
            THEN Finish(AlreadyBooked, 0)
            ELSE [req[p] EXCEPT !.pc = "check_avail"]]
    /\ UNCHANGED <<site, today, store>>

\* create_appointment: Doctor.query.get (answered from the session when the
\* handler already loaded the doctor) and the availability query
CheckAvailability(p) ==
    /\ req[p].pc = "check_avail"
    /\ LET doctor == req[p].loaded \/ req[p].doctor \in doctors
       IN  req' = [req EXCEPT ![p] =
                IF doctor /\ ~ is_available_on(req[p].doctor, req[p].date, req[p].time)
                THEN Finish(NotAvailable, 0)
                ELSE [req[p] EXCEPT !.pc = "insert"]]
    /\ UNCHANGED <<site, today, store>>

\* create_appointment marking the slots that cover the booked time as
\* taken
InsertAppointment_consuming(p) ==
    /\ req[p].pc = "insert"
    /\ apptSeq < MaxAppointments
    /\ apptSeq' = apptSeq + 1
    /\ appts' = appts \cup
            {[id |-> apptSeq + 1, patient |-> req[p].patient,
              doctor |-> req[p].doctor, date |-> req[p].date,
              time |-> req[p].time, status |-> "Booked", reason |-> "none"]}
    /\ slots' = {IF /\ s.doctor = req[p].doctor
                    /\ s.date = req[p].date
                    /\ s.start <= req[p].time
                    /\ req[p].time <= s.end
                 THEN [s EXCEPT !.avail = FALSE] ELSE s : s \in slots}
    /\ req' = [req EXCEPT ![p] = Finish(Booked, apptSeq + 1)]
    /\ UNCHANGED <<site, today, doctors, treatments, treatSeq>>

\* create_appointment: db.session.add(appointment); db.session.commit(),
\* the commit going through
InsertAppointment(p) ==
    /\ req[p].pc = "insert"
    /\ apptSeq < MaxAppointments
    /\ apptSeq' = apptSeq + 1
    /\ appts' = appts \cup
            {[id |-> apptSeq + 1, patient |-> req[p].patient,
              doctor |-> req[p].doctor, date |-> req[p].date,
              time |-> req[p].time, status |-> "Booked", reason |-> "none"]}
    /\ req' = [req EXCEPT ![p] = Finish(Booked, apptSeq + 1)]
    /\ UNCHANGED <<site, today, doctors, slots, treatments, treatSeq>>

(* ---------------------------- cancellation --------------------------- *)

\* Appointment.mark_cancelled on the object the handler loaded: the UPDATE
\* writes the changed columns of the row with that id
mark_cancelled(a, reason) == [a EXCEPT !.status = "Cancelled", !.reason = reason]

\* POST /patient/appointments/<id>/cancel, up to the call of mark_cancelled
patient_cancel_appointment(p, pat, id, reason) ==
    /\ req[p].pc = "idle"
    /\ LET r == [Idle EXCEPT !.op = "patient_cancel", !.patient = pat,
                             !.appt = id, !.text = reason]
       IN  req' = [req EXCEPT ![p] =
                IF id \notin ApptIds THEN Finish(NotFound, 0)
                ELSE IF GetAppt(id).patient # pat THEN Finish(Forbidden, 0)
                ELSE IF ~ can_be_cancelled(GetAppt(id)) THEN Finish(WrongStatus, 0)
                ELSE [r EXCEPT !.pc = "mark_cancelled"]]
    /\ UNCHANGED <<site, today, store>>

\* POST /doctor/appointments/<id>/cancel, up to the call of mark_cancelled
doctor_cancel_appointment(p, doc, id, reason) ==
    /\ req[p].pc = "idle"
    /\ LET r == [Idle EXCEPT !.op = "doctor_cancel", !.doctor = doc,
                             !.appt = id, !.text = reason]
       IN  req' = [req EXCEPT ![p] =
                IF id \notin ApptIds THEN Finish(NotFound, 0)
                ELSE IF GetAppt(id).doctor # doc THEN Finish(Forbidden, 0)
                ELSE IF ~ can_be_cancelled(GetAppt(id)) THEN Finish(WrongStatus, 0)
                ELSE [r EXCEPT !.pc = "mark_cancelled"]]
    /\ UNCHANGED <<site, today, store>>

\* appointment.mark_cancelled(reason): assignment and db.session.commit().
\* The UPDATE names the row by the id the handler loaded; when no row has
\* that id any more the commit raises and the route reports the error
MarkCancelled(p) ==
    /\ req[p].pc = "mark_cancelled"
    /\ IF req[p].appt \in ApptIds
       THEN /\ appts' = {IF a.id = req[p].appt THEN mark_cancelled(a, req[p].text)
                         ELSE a : a \in appts}
            /\ req' = [req EXCEPT ![p] = Finish(Cancelled, 0)]
       ELSE /\ appts' = appts
            /\ req' = [req EXCEPT ![p] = Finish(CancelError, 0)]
    /\ UNCHANGED <<site, today, doctors, slots, apptSeq, treatments, treatSeq>>

(* ----------------------------- completion ----------------------------- *)

\* Appointment.mark_completed on the object the handler loaded
mark_completed(a) == [a EXCEPT !.status = "Completed"]

\* POST /doctor/appointments/<id>/complete, up to the existing-treatment
\* query of Treatment.create_treatment (whose Appointment.query.get returns
\* the object this handler loaded, so its two checks repeat these)
complete_appointment(p, doc, id, diag) ==
    /\ req[p].pc = "idle"
    /\ LET r == [Idle EXCEPT !.op = "complete_appointment", !.doctor = doc,
                             !.appt = id, !.text = diag]
       IN  req' = [req EXCEPT ![p] =
                IF id \notin ApptIds THEN Finish(NotFound, 0)
                ELSE IF GetAppt(id).doctor # doc THEN Finish(Forbidden, 0)
                ELSE IF ~ can_be_completed(GetAppt(id)) THEN Finish(WrongStatus, 0)
                ELSE IF diag = "" THEN Finish(DiagnosisRequired, 0)
                ELSE [r EXCEPT !.pc = "check_existing"]]
    /\ UNCHANGED <<site, today, store>>

\* create_treatment with the existing-treatment check ahead of the status
\* check
create_treatment_reordered(p, id, diag) ==
    /\ req[p].pc = "idle"
    /\ LET r == [Idle EXCEPT !.op = "create_treatment", !.appt = id, !.text = diag]
       IN  req' = [req EXCEPT ![p] =
                IF id \notin ApptIds THEN Finish(AppointmentNotFound, 0)
                ELSE IF HasTreatment(id) THEN Finish(TreatmentExists, 0)
                ELSE IF ~ can_be_completed(GetAppt(id)) THEN Finish(WrongStatus, 0)
                ELSE [r EXCEPT !.pc = "commit_treatment"]]
    /\ UNCHANGED <<site, today, store>>

\* Treatment.create_treatment called directly, up to its existing-treatment
\* query
create_treatment(p, id, diag) ==
    /\ req[p].pc = "idle"
    /\ LET r == [Idle EXCEPT !.op = "create_treatment", !.appt = id, !.text = diag]
       IN  req' = [req EXCEPT ![p] =
                IF id \notin ApptIds THEN Finish(AppointmentNotFound, 0)
                ELSE IF ~ can_be_completed(GetAppt(id)) THEN Finish(WrongStatus, 0)
                ELSE [r EXCEPT !.pc = "check_existing"]]
    /\ UNCHANGED <<site, today, store>>

\* create_treatment: the existing-treatment query
CheckExistingTreatment(p) ==
    /\ req[p].pc = "check_existing"
    /\ req' = [req EXCEPT ![p] =
            IF HasTreatment(req[p].appt) THEN Finish(TreatmentExists, 0)
            ELSE [req[p] EXCEPT !.pc = "commit_treatment"]]
    /\ UNCHANGED <<site, today, store>>

\* treatments.appointment_id without unique=True
UniqueAppointmentId_off(id) == TRUE

\* the unique constraint of treatments.appointment_id
UniqueAppointmentId(id) == ~ HasTreatment(id)

\* create_treatment committing without the store checking the appointment
\* reference
CommitTreatment_unchecked(p) ==
    /\ req[p].pc = "commit_treatment"
    /\ treatSeq' = treatSeq + 1
    /\ treatments' = treatments \cup
            {[id |-> treatSeq + 1, appointment_id |-> req[p].appt,
              diagnosis |-> req[p].text]}
    /\ appts' = {IF a.id = req[p].appt THEN mark_completed(a) ELSE a : a \in appts}
    /\ req' = [req EXCEPT ![p] = Finish(Treated, treatSeq + 1)]
    /\ UNCHANGED <<site, today, doctors, slots, apptSeq>>

\* create_treatment: db.session.add(treatment); appointment.mark_completed()
\* commits both writes in one transaction; a constraint violation raises,
\* and the except branch rolls both back
CommitTreatment(p) ==
    /\ req[p].pc = "commit_treatment"
    /\ IF UniqueAppointmentId(req[p].appt)
       THEN /\ treatSeq' = treatSeq + 1
            /\ treatments' = treatments \cup
                    {[id |-> treatSeq + 1, appointment_id |-> req[p].appt,
                      diagnosis |-> req[p].text]}
            /\ appts' = {IF a.id = req[p].appt THEN mark_completed(a) ELSE a :
                            a \in appts}
            /\ req' = [req EXCEPT ![p] = Finish(Treated, treatSeq + 1)]
       ELSE /\ req' = [req EXCEPT ![p] = Finish(StoreError, 0)]
            /\ UNCHANGED <<appts, treatments, treatSeq>>
    /\ UNCHANGED <<site, today, doctors, slots, apptSeq>>

(* ---------------------------- availability --------------------------- *)

\* the rowid SQLite gives the next INSERT into a table holding rows
NextId(rows) ==
    IF rows = {} THEN 1
    ELSE (CHOOSE m \in {r.id : r \in rows} : \A r \in rows : r.id <= m) + 1

\* the highest id of rows, 0 for an empty table
MaxId(rows) == NextId(rows) - 1

\* DoctorAvailability.query.filter_by(doctor_id, available_date, start_time)
SlotsWithKey(doc, d, st) ==
    {s \in slots : s.doctor = doc /\ s.date = d /\ s.start = st}

\* the end-time check of the availability form accepting an empty slot
EndAfterStart_or_equal(st, en) == ~ (en < st)

\* the end-time check of the availability form
EndAfterStart(st, en) == ~ (en <= st)

\* helpers.parse_date
parse_date(date_string) ==
    IF date_string = FormMissing THEN None
    ELSE IF date_string = FormMalformed THEN None
    ELSE date_string

\* helpers.parse_time
parse_time(time_string) ==
    IF time_string = FormMissing THEN None
    ELSE IF time_string = FormMalformed THEN None
    ELSE time_string

\* POST /doctor/availability/add by the logged-in doctor, up to the call of
\* DoctorAvailability.set_doctor_availability
add_availability(p, doc, d, st, en) ==
    /\ req[p].pc = "idle"
    /\ doc \in doctors
    /\ LET r == [Idle EXCEPT !.op = "add_availability", !.doctor = doc,
                             !.date = d, !.time = st, !.end = en]
       IN  req' = [req EXCEPT ![p] =
                IF ~ InAvailabilityWindow(d, today) \/ ~ EndAfterStart(st, en)
                THEN Finish(AvailabilityError, 0)
                ELSE [r EXCEPT !.pc = "lookup_slot"]]
    /\ UNCHANGED <<site, today, store>>

\* POST /doctor/availability/add with the form as submitted: a field that is
\* missing or does not parse is an error, like the date and time checks
post_add_availability(p, doc, date_str, start_str, end_str) ==
    IF \/ parse_date(date_str) = None
       \/ parse_time(start_str) = None
       \/ parse_time(end_str) = None
    THEN /\ req[p].pc = "idle"
         /\ doc \in doctors
         /\ req' = [req EXCEPT ![p] = Finish(AvailabilityError, 0)]
         /\ UNCHANGED <<site, today, store>>
    ELSE add_availability(p, doc, parse_date(date_str), parse_time(start_str),
                          parse_time(end_str))

\* DoctorAvailability.set_doctor_availability called directly
set_doctor_availability(p, doc, d, st, en) ==
    /\ req[p].pc = "idle"
    /\ req' = [req EXCEPT ![p] =
            [Idle EXCEPT !.pc = "lookup_slot", !.op = "set_doctor_availability",
                         !.doctor = doc, !.date = d, !.time = st, !.end = en]]
    /\ UNCHANGED <<site, today, store>>

\* set_doctor_availability: the lookup by (doctor_id, available_date,
\* start_time); first() returns one of the matching rows
LookupSlot(p) ==
    /\ req[p].pc = "lookup_slot"
    /\ LET existing == SlotsWithKey(req[p].doctor, req[p].date, req[p].time)
       IN  IF existing = {}
           THEN req' = [req EXCEPT ![p] = [req[p] EXCEPT !.pc = "upsert_slot"]]
           ELSE \E s \in existing :
                   req' = [req EXCEPT ![p] =
                       [req[p] EXCEPT !.pc = "upsert_slot", !.slot = s.id,
                                      !.slot_end = s.end, !.slot_avail = s.avail]]
    /\ UNCHANGED <<site, today, store>>

\* set_doctor_availability always adding a new row
UpsertSlot_insert_only(p) ==
    /\ req[p].pc = "upsert_slot"
    /\ slots' = slots \cup
            {[id |-> NextId(slots), doctor |-> req[p].doctor, date |-> req[p].date,
              start |-> req[p].time, end |-> req[p].end, avail |-> TRUE]}
    /\ req' = [req EXCEPT ![p] = Finish(ReturnedNone, 0)]
    /\ UNCHANGED <<site, today, doctors, appts, apptSeq, treatments, treatSeq>>

\* set_doctor_availability: the assignment to the loaded row, or the add of
\* a new row, and db.session.commit().  The commit writes the columns whose
\* assigned value differs from the loaded one, by an UPDATE that addresses
\* the row by its id; when no row has that id the commit raises, which the
\* route catches.
UpsertSlot(p) ==
    /\ req[p].pc = "upsert_slot"
    /\ LET route == req[p].op = "add_availability"
           set_end == req[p].end # req[p].slot_end
           set_avail == ~ req[p].slot_avail
       IN  IF req[p].slot = 0
           THEN /\ slots' = slots \cup
                       {[id |-> NextId(slots), doctor |-> req[p].doctor,
                         date |-> req[p].date, start |-> req[p].time,
                         end |-> req[p].end, avail |-> TRUE]}
                /\ req' = [req EXCEPT ![p] =
                       Finish(IF route THEN AvailabilityAdded ELSE ReturnedNone, 0)]
           ELSE IF ~ set_end /\ ~ set_avail
           THEN /\ slots' = slots
                /\ req' = [req EXCEPT ![p] =
                       Finish(IF route THEN AvailabilityAdded ELSE ReturnedNone, 0)]
           ELSE IF \E s \in slots : s.id = req[p].slot
           THEN /\ slots' = {IF s.id = req[p].slot
                             THEN [s EXCEPT !.end = IF set_end THEN req[p].end ELSE @,
                                            !.avail = IF set_avail THEN TRUE ELSE @]
                             ELSE s : s \in slots}
                /\ req' = [req EXCEPT ![p] =
                       Finish(IF route THEN AvailabilityAdded ELSE ReturnedNone, 0)]
           ELSE /\ slots' = slots
                /\ req' = [req EXCEPT ![p] =
                       Finish(IF route THEN AvailabilityStoreError ELSE Raised, 0)]
    /\ UNCHANGED <<site, today, doctors, appts, apptSeq, treatments, treatSeq>>

\* POST /doctor/availability/delete/<availability_id>, up to the delete
delete_availability(p, doc, id) ==
    /\ req[p].pc = "idle"
    /\ doc \in doctors
    /\ req' = [req EXCEPT ![p] =
            IF ~ \E s \in slots : s.id = id THEN Finish(NotFound, 0)
            ELSE IF (CHOOSE s \in slots : s.id = id).doctor # doc
                 THEN Finish(Forbidden, 0)
            ELSE [Idle EXCEPT !.pc = "delete_slot", !.op = "delete_availability",
                              !.doctor = doc, !.slot = id]]
    /\ UNCHANGED <<site, today, store>>

\* delete_availability cancelling the Booked appointments the slot covered
DeleteSlot_cancelling(p) ==
    /\ req[p].pc = "delete_slot"
    /\ slots' = {s \in slots : s.id # req[p].slot}
    /\ appts' = {IF /\ a.status = "Booked"
                    /\ \E s \in slots : /\ s.id = req[p].slot /\ s.doctor = a.doctor
                                         /\ s.date = a.date
                                         /\ s.start <= a.time /\ a.time <= s.end
                 THEN [a EXCEPT !.status = "Cancelled"] ELSE a : a \in appts}
    /\ req' = [req EXCEPT ![p] = Finish(AvailabilityDeleted, 0)]
    /\ UNCHANGED <<site, today, doctors, apptSeq, treatments, treatSeq>>

\* delete_availability: db.session.delete(availability); db.session.commit()
DeleteSlot(p) ==
    /\ req[p].pc = "delete_slot"
    /\ slots' = {s \in slots : s.id # req[p].slot}
    /\ req' = [req EXCEPT ![p] = Finish(AvailabilityDeleted, 0)]
    /\ UNCHANGED <<site, today, doctors, appts, apptSeq, treatments, treatSeq>>

\* the rows remove_past_availability keeps, with today's slots deleted too
PastRemoved_inclusive(rows, day) == {s \in rows : ~ (s.date <= day)}

\* the rows remove_past_availability keeps
PastRemoved(rows, day) == {s \in rows : ~ (s.date < day)}

\* cleanup_old_data: DoctorAvailability.remove_past_availability()
remove_past_availability(p) ==
    /\ req[p].pc = "idle"
    /\ slots' = PastRemoved(slots, today)
    /\ req' = [req EXCEPT ![p] = Finish(Purged, 0)]
    /\ UNCHANGED <<site, today, doctors, appts, apptSeq, treatments, treatSeq>>

(* ------------------------------- admin -------------------------------- *)

\* doctors.user_id of the doctor row with this id
UserOfDoctor(doc) == (CHOOSE d \in doctorUser : d.id = doc).user

\* POST /admin/doctors/delete/<doctor_id>: Doctor.query.get_or_404 loads the
\* doctor row, its user_id included
delete_doctor(p, doc) ==
    /\ req[p].pc = "idle"
    /\ req' = [req EXCEPT ![p] =
            IF doc \notin doctors THEN Finish(NotFound, 0)
            ELSE [Idle EXCEPT !.pc = "load_cascade", !.op = "delete_doctor",
                              !.doctor = doc, !.user = UserOfDoctor(doc)]]
    /\ UNCHANGED <<site, today, store>>

\* delete_doctor: user = doctor.user; db.session.delete(doctor);
\* db.session.delete(user).  The user row is loaded by its id, and each
\* delete loads the rows it cascades to: the doctor's slots and appointments,
\* each appointment's treatment, and the profiles of the user.  Without a
\* user row the second delete raises and the except branch rolls back.
LoadDoctorCascade(p) ==
    /\ req[p].pc = "load_cascade"
    /\ LET docs == {req[p].doctor} \cup
                       {d.id : d \in {e \in doctorUser : e.user = req[p].user}}
           pats == {r.id : r \in {q \in patients : q.user = req[p].user}}
           aps == {a.id : a \in {b \in appts : b.doctor \in docs \/ b.patient \in pats}}
       IN  req' = [req EXCEPT ![p] =
                IF ~ \E u \in users : u.id = req[p].user
                THEN Finish(DeleteError, 0)
                ELSE [req[p] EXCEPT
                        !.pc = "delete_doctor",
                        !.gone_doctors = docs,
                        !.gone_patients = pats,
                        !.gone_slots = {s.id : s \in {r \in slots : r.doctor \in docs}},
                        !.gone_appts = aps,
                        !.gone_treats =
                            {t.id : t \in {x \in treatments : x.appointment_id \in aps}}]]
    /\ UNCHANGED <<site, today, store>>

\* delete_doctor: db.session.commit().  Each loaded row is deleted by its
\* id; a DELETE that finds no row is not an error.
DeleteDoctor(p) ==
    /\ req[p].pc = "delete_doctor"
    /\ doctors' = doctors \ req[p].gone_doctors
    /\ doctorUser' = {d \in doctorUser : d.id \notin req[p].gone_doctors}
    /\ users' = {u \in users : u.id # req[p].user}
    /\ patients' = {r \in patients : r.id \notin req[p].gone_patients}
    /\ slots' = {s \in slots : s.id \notin req[p].gone_slots}
    /\ appts' = {a \in appts : a.id \notin req[p].gone_appts}
    /\ treatments' = {t \in treatments : t.id \notin req[p].gone_treats}
    /\ apptSeq' = MaxId({a \in appts : a.id \notin req[p].gone_appts})
    /\ treatSeq' = MaxId({t \in treatments : t.id \notin req[p].gone_treats})
    /\ req' = [req EXCEPT ![p] = Finish(DoctorDeleted, 0)]
    /\ UNCHANGED <<today, sessions, limiter>>

(* ------------------------------ accounts ------------------------------ *)

RegisterError == "Username already exists. / Email already registered."
Registered == "Registration successful!"
RegistrationFailed == "Registration failed"
DoctorAdded == "Doctor added successfully!"
AddDoctorError == "Error adding doctor"
PatientUpdated == "Patient updated successfully!"
EditPatientError == "Error updating patient"

\* registrations and add-doctor requests that may still insert a user
AccountsInFlight ==
    Cardinality({p \in Workers : req[p].pc \in {"register_commit", "add_doctor_commit"}})

\* User.query.filter_by(username=...).first() / filter_by(email=...).first()
UserExists(username, email) ==
    \/ \E u \in users : u.username = username
    \/ \E u \in users : u.email = email

\* table users without unique=True on username and email
UniqueUser_off(username, email) == TRUE

\* the unique constraints of users.username and users.email
UniqueUser(username, email) == ~ UserExists(username, email)

\* POST /auth/register with a well-formed form, up to the try block: the
\* username and email queries
register(p, username, email) ==
    /\ req[p].pc = "idle"
    /\ NextId(users) + AccountsInFlight <= MaxUsers
    /\ req' = [req EXCEPT ![p] =
            IF UserExists(username, email) THEN Finish(RegisterError, 0)
            ELSE [Idle EXCEPT !.pc = "register_commit", !.op = "register",
                              !.name = username, !.email = email]]
    /\ UNCHANGED <<site, today, store>>

\* register: db.session.add(user); flush; db.session.add(patient); commit,
\* in one transaction.  A unique constraint that fails (users.username,
\* users.email, patients.user_id) raises, and the except branch rolls back.
RegisterCommit(p) ==
    /\ req[p].pc = "register_commit"
    /\ IF /\ UniqueUser(req[p].name, req[p].email)
          /\ ~ \E r \in patients : r.user = NextId(users)
       THEN /\ users' = users \cup
                    {[id |-> NextId(users), username |-> req[p].name,
                      email |-> req[p].email, role |-> "patient", active |-> TRUE]}
            /\ patients' = patients \cup
                    {[id |-> NextId(patients), user |-> NextId(users)]}
            /\ req' = [req EXCEPT ![p] = Finish(Registered, NextId(users))]
       ELSE /\ UNCHANGED <<users, patients>>
            /\ req' = [req EXCEPT ![p] = Finish(RegistrationFailed, 0)]
    /\ UNCHANGED <<today, store, doctorUser, sessions, limiter>>

\* POST /admin/doctors/add by the logged-in admin with a well-formed form,
\* up to the try block
add_doctor(p, username, email) ==
    /\ req[p].pc = "idle"
    /\ NextId(users) + AccountsInFlight <= MaxUsers
    /\ NextId(doctorUser) + AccountsInFlight \in DoctorIds
    /\ req' = [req EXCEPT ![p] =
            IF UserExists(username, email) THEN Finish(AddDoctorError, 0)
            ELSE [Idle EXCEPT !.pc = "add_doctor_commit", !.op = "add_doctor",
                              !.name = username, !.email = email]]
    /\ UNCHANGED <<site, today, store>>

\* add_doctor: db.session.add(user); flush; db.session.add(doctor); commit,
\* in one transaction, rolled back when a unique constraint fails
AddDoctorCommit(p) ==
    /\ req[p].pc = "add_doctor_commit"
    /\ IF /\ UniqueUser(req[p].name, req[p].email)
          /\ ~ \E d \in doctorUser : d.user = NextId(users)
       THEN /\ users' = users \cup
                    {[id |-> NextId(users), username |-> req[p].name,
                      email |-> req[p].email, role |-> "doctor", active |-> TRUE]}
            /\ doctorUser' = doctorUser \cup
                    {[id |-> NextId(doctorUser), user |-> NextId(users)]}
            /\ doctors' = doctors \cup {NextId(doctorUser)}
            /\ req' = [req EXCEPT ![p] = Finish(DoctorAdded, NextId(doctorUser))]
       ELSE /\ UNCHANGED <<users, doctorUser, doctors>>
            /\ req' = [req EXCEPT ![p] = Finish(AddDoctorError, 0)]
    /\ UNCHANGED <<today, slots, appts, apptSeq, treatments, treatSeq,
                   patients, sessions, limiter>>

\* POST /admin/patients/edit/<patient_id> with a well-formed form, up to the
\* try block: get_or_404 and the email query
edit_patient(p, pat, email) ==
    /\ req[p].pc = "idle"
    /\ req' = [req EXCEPT ![p] =
            IF ~ \E r \in patients : r.id = pat THEN Finish(NotFound, 0)
            ELSE LET uid == (CHOOSE r \in patients : r.id = pat).user
                 IN  IF \E u \in users : u.email = email /\ u.id # uid
                     THEN Finish(EditPatientError, 0)
                     ELSE [Idle EXCEPT !.pc = "edit_commit", !.op = "edit_patient",
                                       !.patient = pat, !.user = uid,
                                       !.email = email]]
    /\ UNCHANGED <<site, today, store>>

\* edit_patient: patient.user.email = email; db.session.commit().  Without a
\* user row the assignment raises; an email another user holds fails the
\* unique constraint; both are rolled back.
EditPatientCommit(p) ==
    /\ req[p].pc = "edit_commit"
    /\ IF /\ \E u \in users : u.id = req[p].user
          /\ ~ \E u \in users : u.email = req[p].email /\ u.id # req[p].user
       THEN /\ users' = {IF u.id = req[p].user
                         THEN [u EXCEPT !.email = req[p].email] ELSE u : u \in users}
            /\ req' = [req EXCEPT ![p] = Finish(PatientUpdated, 0)]
       ELSE /\ users' = users
            /\ req' = [req EXCEPT ![p] = Finish(EditPatientError, 0)]
    /\ UNCHANGED <<today, store, patients, doctorUser, sessions, limiter>>

(* ----------------------- sessions and role guards -------------------- *)

\* outcomes of the role decorators and of the login route
LoginRedirect == "Please log in to access this page."
DeactivatedRedirect == "Your account has been deactivated. Please contact support."
Abort403 == "403"
Admitted == "admitted"
HandlerRan == "handler ran"
InvalidLogin == "Invalid username or password."
DeactivatedLogin == "Your account has been deactivated. Please contact the administrator."
LoggedIn == "Welcome back"
LoggedOut == "You have been logged out"
Toggled == "toggled"
ToggleError == "Error toggling patient status"

\* flask_login's AnonymousUserMixin
Anonymous ==
    [id |-> 0, username |-> "", email |-> "", role |-> "none", active |-> FALSE]

\* load_user: User.query.get(int(user_id)), run at the start of every
\* request for the user id of the session cookie
load_user(uid) ==
    IF \E u \in users : u.id = uid
    THEN CHOOSE u \in users : u.id = uid
    ELSE Anonymous

\* current_user of a request of browser c
current_user(c) == load_user(sessions[c])

\* User.is_authenticated / AnonymousUserMixin.is_authenticated
is_authenticated(u) == u.id # 0

\* a guard that takes every authenticated user for an active one
is_active_unchecked(u) == TRUE

\* User.is_active: the column of table users
is_active(u) == u.active

\* admin_required / doctor_required / patient_required, for the role each
\* one names: what the decorator does with the request
role_required(u, role) ==
    IF ~ is_authenticated(u) THEN LoginRedirect
    ELSE IF ~ is_active(u) THEN DeactivatedRedirect
    ELSE IF u.role # role THEN Abort403
    ELSE Admitted

\* a request of browser c to a handler guarded for role: load_user and the
\* decorator
guarded_request(p, c, role) ==
    /\ req[p].pc = "idle"
    /\ req' = [req EXCEPT ![p] =
            IF role_required(current_user(c), role) = Admitted
            THEN [Idle EXCEPT !.pc = "handler", !.op = "guarded", !.client = c,
                              !.role = role, !.user = sessions[c]]
            ELSE Finish(role_required(current_user(c), role), 0)]
    /\ UNCHANGED <<site, today, store>>

\* the guarded handler runs: f(*args, **kwargs)
RunHandler(p) ==
    /\ req[p].pc = "handler"
    /\ req' = [req EXCEPT ![p] = Finish(HandlerRan, 0)]
    /\ UNCHANGED <<site, today, store>>

\* POST /auth/login
login(p, c, username, password_ok) ==
    /\ req[p].pc = "idle"
    /\ IF ~ \E u \in users : u.username = username
       THEN /\ req' = [req EXCEPT ![p] = Finish(InvalidLogin, 0)]
            /\ sessions' = sessions
       ELSE LET user == CHOOSE u \in users : u.username = username
            IN  IF ~ is_active(user)
                THEN /\ req' = [req EXCEPT ![p] = Finish(DeactivatedLogin, 0)]
                     /\ sessions' = sessions
                ELSE IF ~ password_ok
                THEN /\ req' = [req EXCEPT ![p] = Finish(InvalidLogin, 0)]
                     /\ sessions' = sessions
                ELSE /\ req' = [req EXCEPT ![p] = Finish(LoggedIn, user.id)]
                     /\ sessions' = [sessions EXCEPT ![c] = user.id]
    /\ UNCHANGED <<today, store, users, patients, doctorUser, limiter>>

\* GET /auth/logout
logout(p, c) ==
    /\ req[p].pc = "idle"
    /\ sessions[c] # 0
    /\ sessions' = [sessions EXCEPT ![c] = 0]
    /\ req' = [req EXCEPT ![p] = Finish(LoggedOut, 0)]
    /\ UNCHANGED <<today, store, users, patients, doctorUser, limiter>>

\* POST /admin/patients/toggle-active/<patient_id>, up to the commit: the
\* admin guard, get_or_404 and the load of patient.user
toggle_patient_active(p, c, pat) ==
    /\ req[p].pc = "idle"
    /\ req' = [req EXCEPT ![p] =
            IF role_required(current_user(c), "admin") # Admitted
            THEN Finish(role_required(current_user(c), "admin"), 0)
            ELSE IF ~ \E r \in patients : r.id = pat THEN Finish(NotFound, 0)
            ELSE LET uid == (CHOOSE r \in patients : r.id = pat).user
                 IN  [Idle EXCEPT !.pc = "toggle_commit", !.op = "toggle_active",
                                  !.client = c, !.role = "admin", !.user = uid,
                                  !.loaded = is_active(load_user(uid))]]
    /\ UNCHANGED <<site, today, store>>

\* User.deactivate() / User.activate(): the flag is set to the opposite of
\* the loaded one and committed
ToggleCommit(p) ==
    /\ req[p].pc = "toggle_commit"
    /\ IF \E u \in users : u.id = req[p].user
       THEN /\ users' = {IF u.id = req[p].user
                         THEN [u EXCEPT !.active = ~ req[p].loaded] ELSE u :
                         u \in users}
            /\ req' = [req EXCEPT ![p] = Finish(Toggled, 0)]
       ELSE /\ users' = users
            /\ req' = [req EXCEPT ![p] = Finish(ToggleError, 0)]
    /\ UNCHANGED <<today, store, patients, doctorUser, sessions, limiter>>

(* ---------------------------- rate limiting --------------------------- *)

Abort429 == "429 Too many requests. Please try again later."
KeyError500 == "500 KeyError"

\* the entries of request_counts the cleaning loop keeps at time t
Kept(t) == {e \in request_counts : ~ (t - e.timestamp > window)}

\* client_id in request_counts
Counted(c) == \E e \in request_counts : e.client = c

\* request_counts[client_id]
Entry(c) == CHOOSE e \in request_counts : e.client = c

\* request_counts[client_id]['count'] >= max_requests
AtLimit(count) == count >= max_requests

\* a request of client c to a handler wrapped with rate_limit: the client
\* id, current_time = time() and the loop that drops the old entries
rate_limited_request(p, c) ==
    /\ req[p].pc = "idle"
    /\ request_counts' = Kept(now)
    /\ req' = [req EXCEPT ![p] =
            [Idle EXCEPT !.pc = "check_limit", !.op = "rate_limit", !.client = c,
                         !.current_time = now]]
    /\ UNCHANGED <<accounts, now, today, store>>

\* rate_limit: the membership test and the comparison of the count
CheckLimit(p) ==
    /\ req[p].pc = "check_limit"
    /\ req' = [req EXCEPT ![p] =
            IF ~ Counted(req[p].client) THEN [req[p] EXCEPT !.pc = "insert_entry"]
            ELSE IF AtLimit(Entry(req[p].client).count) THEN Finish(Abort429, 0)
            ELSE [req[p] EXCEPT !.pc = "increment"]]
    /\ UNCHANGED <<site, today, store>>

\* rate_limit: request_counts[client_id]['count'] += 1; the subscript raises
\* KeyError when the entry has been dropped since the test
Increment(p) ==
    /\ req[p].pc = "increment"
    /\ IF Counted(req[p].client)
       THEN /\ request_counts' =
                    {IF e.client = req[p].client THEN [e EXCEPT !.count = @ + 1]
                     ELSE e : e \in request_counts}
            /\ req' = [req EXCEPT ![p] = [req[p] EXCEPT !.pc = "handler"]]
       ELSE /\ request_counts' = request_counts
            /\ req' = [req EXCEPT ![p] = Finish(KeyError500, 0)]
    /\ UNCHANGED <<accounts, now, today, store>>

\* rate_limit: request_counts[client_id] = {'count': 1, 'timestamp': current_time}
InsertEntry(p) ==
    /\ req[p].pc = "insert_entry"
    /\ request_counts' = {e \in request_counts : e.client # req[p].client} \cup
            {[client |-> req[p].client, count |-> 1,
              timestamp |-> req[p].current_time]}
    /\ req' = [req EXCEPT ![p] = [req[p] EXCEPT !.pc = "handler"]]
    /\ UNCHANGED <<accounts, now, today, store>>

\* a second passes
Clock ==
    /\ now < MaxTime
    /\ now' = now + 1
    /\ UNCHANGED <<accounts, request_counts, today, store, req>>

(* --------------------------- store failures --------------------------- *)

\* create_appointment: the commit raises without a rollback following
InsertAppointmentFails_no_rollback(p) ==
    /\ req[p].pc = "insert"
    /\ apptSeq < MaxAppointments
    /\ apptSeq' = apptSeq + 1
    /\ appts' = appts \cup
            {[id |-> apptSeq + 1, patient |-> req[p].patient,
              doctor |-> req[p].doctor, date |-> req[p].date,
              time |-> req[p].time, status |-> "Booked", reason |-> "none"]}
    /\ req' = [req EXCEPT ![p] = Finish(CreateError, 0)]
    /\ UNCHANGED <<site, today, doctors, slots, treatments, treatSeq>>

\* create_appointment: db.session.commit() raises; the except branch rolls
\* back and returns (False, "Error creating appointment: ...", None)
InsertAppointmentFails(p) ==
    /\ req[p].pc = "insert"
    /\ req' = [req EXCEPT ![p] = Finish(CreateError, 0)]
    /\ UNCHANGED <<site, today, store>>

\* create_treatment: the commit raises for a reason other than the unique
\* constraint; the except branch rolls back and returns (False, "Error
\* creating treatment: ...", None)
CommitTreatmentFails(p) ==
    /\ req[p].pc = "commit_treatment"
    /\ req' = [req EXCEPT ![p] = Finish(StoreError, 0)]
    /\ UNCHANGED <<site, today, store>>

(* ----------------------------- environment ---------------------------- *)

\* the response is sent and the worker takes the next request
Respond(p) ==
    /\ req[p].pc = "done"
    /\ req' = [req EXCEPT ![p] = Idle]
    /\ UNCHANGED <<site, today, store>>

\* midnight passes
Tick ==
    /\ today < MaxDay
    /\ today' = today + 1
    /\ UNCHANGED <<site, store, req>>

\* the web application: the patient and doctor routes that change
\* appointments or treatments
Next ==
    \/ \E p \in Workers, pat \in PatientIds :
          book_appointment(p, pat, 1, 1, 2)
    \/ \E p \in Workers : CheckDoubleBooking(p)
    \/ \E p \in Workers : CheckAvailability(p)
    \/ \E p \in Workers : InsertAppointment(p)
    \/ \E p \in Workers, pat \in PatientIds, id \in AppointmentIds, rs \in PatientReasons :
          patient_cancel_appointment(p, pat, id, rs)
    \/ \E p \in Workers, doc \in SeedDoctors, id \in AppointmentIds, rs \in DoctorReasons :
          doctor_cancel_appointment(p, doc, id, rs)
    \/ \E p \in Workers : MarkCancelled(p)
    \/ \E p \in Workers, doc \in SeedDoctors, id \in AppointmentIds, dg \in Diagnoses :
          complete_appointment(p, doc, id, dg)
    \/ \E p \in Workers : CheckExistingTreatment(p)
    \/ \E p \in Workers : CommitTreatment(p)
    \/ \E p \in Workers : Respond(p)

Spec == Init /\ [][Next]_vars

\* the booking route under a moving calendar, with patient cancellation
BookNext ==
    \/ \E p \in Workers, pat \in PatientIds, doc \in DoctorIds, d \in Dates, t \in Times :
          book_appointment(p, pat, doc, d, t)
    \/ \E p \in Workers : CheckDoubleBooking(p)
    \/ \E p \in Workers : CheckAvailability(p)
    \/ \E p \in Workers : InsertAppointment(p)
    \/ \E p \in Workers, pat \in PatientIds, id \in AppointmentIds, rs \in PatientReasons :
          patient_cancel_appointment(p, pat, id, rs)
    \/ \E p \in Workers : MarkCancelled(p)
    \/ \E p \in Workers : Respond(p)
    \/ Tick

BookSpec == Init /\ [][BookNext]_vars

\* the core operations called directly: a doctor with and one without a
\* doctor record, a time inside and one outside the seeded slot
CoreNext ==
    \/ \E p \in Workers, pat \in {1}, doc \in {1, 3}, d \in {1}, t \in {2, 3} :
          create_appointment(p, pat, doc, d, t)
    \/ \E p \in Workers : CheckDoubleBooking(p)
    \/ \E p \in Workers : CheckAvailability(p)
    \/ \E p \in Workers : InsertAppointment(p)
    \/ \E p \in Workers, id \in AppointmentIds, dg \in Diagnoses :
          create_treatment(p, id, dg)
    \/ \E p \in Workers : CheckExistingTreatment(p)
    \/ \E p \in Workers : CommitTreatment(p)
    \/ \E p \in Workers : InsertAppointmentFails(p)
    \/ \E p \in Workers : CommitTreatmentFails(p)
    \/ \E p \in Workers : Respond(p)

CoreSpec == Init /\ [][CoreNext]_vars

\* Treatment.create_treatment called directly on the seeded appointments
\* and on ids of no appointment
TreatNext ==
    \/ \E p \in Workers, id \in AppointmentIds, dg \in Diagnoses :
          create_treatment(p, id, dg)
    \/ \E p \in Workers : CheckExistingTreatment(p)
    \/ \E p \in Workers : CommitTreatment(p)
    \/ \E p \in Workers : Respond(p)

TreatSpec == Init /\ [][TreatNext]_vars

\* the cancel routes of patient and doctor and the completion route, on the
\* seeded appointments
CareNext ==
    \/ \E p \in Workers, pat \in PatientIds, id \in AppointmentIds, rs \in PatientReasons :
          patient_cancel_appointment(p, pat, id, rs)
    \/ \E p \in Workers, doc \in SeedDoctors, id \in AppointmentIds, rs \in DoctorReasons :
          doctor_cancel_appointment(p, doc, id, rs)
    \/ \E p \in Workers : MarkCancelled(p)
    \/ \E p \in Workers, doc \in SeedDoctors, id \in AppointmentIds, dg \in Diagnoses :
          complete_appointment(p, doc, id, dg)
    \/ \E p \in Workers : CheckExistingTreatment(p)
    \/ \E p \in Workers : CommitTreatment(p)
    \/ \E p \in Workers : Respond(p)

CareSpec == Init /\ [][CareNext]_vars

\* DoctorAvailability.set_doctor_availability called directly
SlotNext ==
    \/ \E p \in Workers, k \in SlotKeys, en \in {2, 3} :
          set_doctor_availability(p, k[1], k[2], k[3], en)
    \/ \E p \in Workers : LookupSlot(p)
    \/ \E p \in Workers : UpsertSlot(p)
    \/ \E p \in Workers : Respond(p)

SlotSpec == Init /\ [][SlotNext]_vars

\* the availability routes of a doctor and the purge of past slots, under a
\* moving calendar
AvailNext ==
    \/ \E p \in Workers, f \in AvailabilityForms \cup MalformedForms :
          post_add_availability(p, 1, f[1], f[2], f[3])
    \/ \E p \in Workers : LookupSlot(p)
    \/ \E p \in Workers : UpsertSlot(p)
    \/ \E p \in Workers, doc \in SeedDoctors, id \in SlotIds :
          delete_availability(p, doc, id)
    \/ \E p \in Workers : DeleteSlot(p)
    \/ \E p \in Workers : remove_past_availability(p)
    \/ \E p \in Workers : Respond(p)
    \/ Tick

AvailSpec == Init /\ [][AvailNext]_vars

\* the booking route next to the admin route that deletes a doctor
AdminNext ==
    \/ \E p \in Workers, pat \in PatientIds, doc \in SeedDoctors, t \in Times :
          book_appointment(p, pat, doc, 1, t)
    \/ \E p \in Workers : CheckDoubleBooking(p)
    \/ \E p \in Workers : CheckAvailability(p)
    \/ \E p \in Workers : InsertAppointment(p)
    \/ \E p \in Workers, doc \in DoctorIds : delete_doctor(p, doc)
    \/ \E p \in Workers : LoadDoctorCascade(p)
    \/ \E p \in Workers : DeleteDoctor(p)
    \/ \E p \in Workers : Respond(p)

AdminSpec == Init /\ [][AdminNext]_vars

\* a second doctor opens a slot and is later deleted by the admin, while
\* patients book and cancel
OwnerNext ==
    \/ \E p \in Workers : set_doctor_availability(p, 2, 1, 1, 2)
    \/ \E p \in Workers : LookupSlot(p)
    \/ \E p \in Workers : UpsertSlot(p)
    \/ \E p \in Workers, pat \in PatientIds, doc \in SeedDoctors :
          book_appointment(p, pat, doc, 1, 1)
    \/ \E p \in Workers : CheckDoubleBooking(p)
    \/ \E p \in Workers : CheckAvailability(p)
    \/ \E p \in Workers : InsertAppointment(p)
    \/ \E p \in Workers, pat \in PatientIds, id \in AppointmentIds :
          patient_cancel_appointment(p, pat, id, "Cancelled by patient")
    \/ \E p \in Workers : MarkCancelled(p)
    \/ \E p \in Workers : delete_doctor(p, 2)
    \/ \E p \in Workers : LoadDoctorCascade(p)
    \/ \E p \in Workers : DeleteDoctor(p)
    \/ \E p \in Workers : Respond(p)

OwnerSpec == Init /\ [][OwnerNext]_vars

\* logins, guarded requests of admin and patient browsers, and the admin
\* deactivating and reactivating a patient
AuthNext ==
    \/ \E p \in Workers, c \in Clients, n \in {"admin", "patient"}, ok \in BOOLEAN :
          login(p, c, n, ok)
    \/ \E p \in Workers, c \in Clients : logout(p, c)
    \/ \E p \in Workers, c \in Clients, r \in {"admin", "doctor", "patient"} :
          guarded_request(p, c, r)
    \/ \E p \in Workers : RunHandler(p)
    \/ \E p \in Workers, c \in Clients : toggle_patient_active(p, c, 1)
    \/ \E p \in Workers : ToggleCommit(p)
    \/ \E p \in Workers : Respond(p)

AuthSpec == Init /\ [][AuthNext]_vars

\* the add-availability forms of doctor 1 for a date before, at the start
\* of, at the end of and after the eight days
WindowForms == {<<d, 1, 2>> : d \in Dates}

\* a doctor adds slots and a patient looks at the booking form and books,
\* under a moving calendar
WindowNext ==
    \/ \E p \in Workers, f \in WindowForms :
          post_add_availability(p, 1, f[1], f[2], f[3])
    \/ \E p \in Workers : LookupSlot(p)
    \/ \E p \in Workers : UpsertSlot(p)
    \/ \E p \in Workers : book_appointment_form(p, 1)
    \/ \E p \in Workers, d \in Dates : book_appointment(p, 1, 1, d, 1)
    \/ \E p \in Workers : CheckDoubleBooking(p)
    \/ \E p \in Workers : CheckAvailability(p)
    \/ \E p \in Workers : InsertAppointment(p)
    \/ \E p \in Workers : Respond(p)
    \/ Tick

WindowSpec == Init /\ [][WindowNext]_vars

\* the usernames and emails of the registration and add-doctor forms: a
\* fresh one and one of the sample data
FormNames == {"new", "patient"}
FormEmails == {"new@example.com", "patient@example.com"}

\* patients register while the admin adds, edits and deletes accounts
AccountNext ==
    \/ \E p \in Workers, n \in FormNames, e \in FormEmails : register(p, n, e)
    \/ \E p \in Workers : RegisterCommit(p)
    \/ \E p \in Workers, n \in FormNames, e \in FormEmails : add_doctor(p, n, e)
    \/ \E p \in Workers : AddDoctorCommit(p)
    \/ \E p \in Workers : edit_patient(p, 2, "new@example.com")
    \/ \E p \in Workers : EditPatientCommit(p)
    \/ \E p \in Workers, doc \in DoctorIds : delete_doctor(p, doc)
    \/ \E p \in Workers : LoadDoctorCascade(p)
    \/ \E p \in Workers : DeleteDoctor(p)
    \/ \E p \in Workers : Respond(p)

AccountSpec == Init /\ [][AccountNext]_vars

\* requests of two clients to one handler wrapped with rate_limit, served
\* by the threads of the application
LimitNext ==
    \/ \E p \in Workers, c \in Clients : rate_limited_request(p, c)
    \/ \E p \in Workers : CheckLimit(p)
    \/ \E p \in Workers : Increment(p)
    \/ \E p \in Workers : InsertEntry(p)
    \/ \E p \in Workers : RunHandler(p)
    \/ \E p \in Workers : Respond(p)
    \/ Clock

LimitSpec == Init /\ [][LimitNext]_vars

(* ============================== claims =============================== *)

\* ids issued after the seed data
NewAppts == {a \in appts : a.id > Cardinality(SeedAppointments)}
NewTreatments == {t \in treatments : t.id > Cardinality(SeedTreatments)}

\* an appointment with status Booked exists for (doctorId, date, time)
BookedAt(doc, d, t) ==
    \E a \in appts : a.doctor = doc /\ a.date = d /\ a.time = t /\ a.status = "Booked"

\* Availability Store.isAvailableAt(doctorId, date, time)
IsAvailableAt(doc, d, t) ==
    \E s \in slots : s.doctor = doc /\ s.date = d /\ s.avail /\ s.start <= t /\ t <= s.end

\* worker p takes a step of its handler
Steps(p) == req'[p] # req[p]

\* C1: in every reachable state, interleaved booking requests included, at
\* most one appointment with status Booked exists for any (doctorId, date,
\* time) triple.
AtMostOneBooked ==
    \A a, b \in appts :
        (/\ a.status = "Booked"
         /\ b.status = "Booked"
         /\ a.doctor = b.doctor
         /\ a.date = b.date
         /\ a.time = b.time) => a.id = b.id

\* C2: when the double-booking query of create_appointment runs while a
\* Booked appointment exists for (doctorId, date, time), whoever the patient
\* is, the call returns (False, "not available at this time", None), inserts
\* nothing and leaves every existing appointment unchanged.
DoubleBookingRejected ==
    [][\A p \in Workers :
          (/\ req[p].pc = "check_double"
           /\ Steps(p)
           /\ BookedAt(req[p].doctor, req[p].date, req[p].time))
          => (/\ req'[p] = Finish(AlreadyBooked, 0)
              /\ appts' = appts
              /\ apptSeq' = apptSeq)]_vars

\* a second booking of a triple was rejected while the first one stands
DoubleBookingRejectedWitness ==
    \E p \in Workers :
        /\ req[p].pc = "done"
        /\ req[p].res = AlreadyBooked
        /\ \E a \in NewAppts : a.status = "Booked"

\* C3: for every doctorId, one without a doctor record included: if
\* isAvailableAt(doctorId, date, time) is false the booking is rejected with
\* the "doctor not available" message and nothing is inserted; every
\* appointment create_appointment inserts is covered by an available slot of
\* its doctor at the moment of the insert.
UnavailableRejected ==
    [][\A p \in Workers :
          /\ (/\ req[p].pc = "check_avail"
              /\ Steps(p)
              /\ ~ IsAvailableAt(req[p].doctor, req[p].date, req[p].time))
             => (req'[p] = Finish(NotAvailable, 0) /\ appts' = appts)
          /\ (req[p].pc = "insert" /\ Steps(p))
             => IsAvailableAt(req[p].doctor, req[p].date, req[p].time)]_vars

\* the booking form rejects a date outside the window and lets the dates
\* today .. today+7 through
WindowChecked(p) ==
    \A pat \in PatientIds, doc \in DoctorIds, d \in Dates, t \in Times :
        book_appointment(p, pat, doc, d, t) =>
            /\ (d < today \/ d > today + BookingWindowDays)
               => (/\ req'[p].pc = "done"
                   /\ req'[p].res \in {WindowError, NotFound}
                   /\ req'[p].ret = 0
                   /\ appts' = appts)
            /\ (doc \in doctors /\ (d < today \/ d > today + BookingWindowDays))
               => req'[p] = Finish(WindowError, 0)
            /\ (doc \in doctors /\ today <= d /\ d <= today + BookingWindowDays)
               => (/\ req'[p].pc = "check_double"
                   /\ req'[p].patient = pat
                   /\ req'[p].doctor = doc
                   /\ req'[p].date = d
                   /\ req'[p].time = t)

\* C4 as stated: the booking route rejects a date before today or after
\* today+7 and inserts nothing, lets today .. today+7 through, and every
\* appointment it inserts has a date within [today, today+7] on the day of
\* the insert.
WindowAtCreation ==
    [][\A p \in Workers :
          /\ WindowChecked(p)
          /\ (/\ req[p].pc = "insert"
              /\ req[p].op = "book_appointment"
              /\ Steps(p))
             => (/\ today <= req[p].date
                 /\ req[p].date <= today + BookingWindowDays)]_vars

\* C4 as amended: the booking route rejects a date before today or after
\* today+7 and inserts nothing, lets today .. today+7 through, and every
\* appointment it inserts has a date within [c, c+7], c being the day on
\* which the request's window check ran.
WindowAtCheck ==
    [][\A p \in Workers :
          /\ WindowChecked(p)
          /\ (/\ req[p].pc = "insert"
              /\ req[p].op = "book_appointment"
              /\ Steps(p))
             => (/\ req[p].day <= req[p].date
                 /\ req[p].date <= req[p].day + BookingWindowDays
                 /\ req[p].day <= today)]_vars

\* one request was rejected by the window check, another passed it with a
\* date on the last day of the window, and a booking has been inserted
WindowWitness ==
    /\ NewAppts # {}
    /\ \E p, q \in Workers :
          /\ req[p].res = WindowError
          /\ req[q].pc = "check_double"
          /\ req[q].date = req[q].day + BookingWindowDays

\* C5: a booking whose date is in the window, whose triple has no Booked
\* appointment and whose time is covered by an available slot of the doctor
\* passes each check of the handler, and the insert adds exactly one
\* appointment, with the given patient, doctor, date and time and status
\* Booked, and returns (True, message, that appointment); nothing else
\* changes.
BookingSucceeds ==
    [][\A p \in Workers :
          /\ WindowChecked(p)
          /\ (/\ req[p].pc = "check_double"
              /\ Steps(p)
              /\ ~ BookedAt(req[p].doctor, req[p].date, req[p].time))
             => req'[p] = [req[p] EXCEPT !.pc = "check_avail"]
          /\ (/\ req[p].pc = "check_avail"
              /\ Steps(p)
              /\ IsAvailableAt(req[p].doctor, req[p].date, req[p].time))
             => req'[p] = [req[p] EXCEPT !.pc = "insert"]
          /\ (req[p].pc = "insert" /\ Steps(p))
             => \E a \in appts' :
                   /\ a.id \notin ApptIds
                   /\ appts' = appts \cup {a}
                   /\ a.patient = req[p].patient
                   /\ a.doctor = req[p].doctor
                   /\ a.date = req[p].date
                   /\ a.time = req[p].time
                   /\ a.status = "Booked"
                   /\ req'[p] = Finish(Booked, a.id)
                   /\ UNCHANGED <<doctors, slots, treatments>>]_vars

\* a booking has returned its appointment, which is Booked
BookingSucceedsWitness ==
    \E p \in Workers :
        /\ req[p].pc = "done"
        /\ req[p].res = Booked
        /\ \E a \in NewAppts : a.id = req[p].ret /\ a.status = "Booked"

\* C6: once an appointment's status is Completed or Cancelled, no step
\* changes its status or its stored cancellation reason.
TerminalStatusFinal ==
    [][\A a \in appts :
          a.status \in {"Completed", "Cancelled"} =>
              \E b \in appts' :
                  b.id = a.id /\ b.status = a.status /\ b.reason = a.reason]_vars

\* the treatments that reference appointment id
TreatmentsOf(id) == {t \in treatments : t.appointment_id = id}

TreatmentOnlyForCompleted ==
    \A t \in treatments :
        \E a \in appts : a.id = t.appointment_id /\ a.status = "Completed"

\* C9: create_treatment called with an id of no appointment, or of an
\* appointment whose status is Cancelled or Completed, returns (False,
\* message, None), creates no Treatment and changes no appointment.
FailedTreatmentChangesNothing ==
    [][\A p \in Workers, id \in AppointmentIds, dg \in Diagnoses :
          (/\ create_treatment(p, id, dg)
           /\ \/ id \notin ApptIds
              \/ \E a \in appts : a.id = id /\ a.status \in {"Cancelled", "Completed"})
          => (/\ req'[p].pc = "done"
              /\ req'[p].res = IF id \in ApptIds THEN WrongStatus ELSE AppointmentNotFound
              /\ req'[p].ret = 0
              /\ treatments' = treatments
              /\ appts' = appts)]_vars

\* one call failed on a missing appointment and one on a wrong status, and
\* the Cancelled appointment is still Cancelled and has no Treatment
FailedTreatmentWitness ==
    /\ \E p, q \in Workers :
          /\ req[p].res = AppointmentNotFound
          /\ req[q].res = WrongStatus
    /\ \E a \in appts : a.status = "Cancelled" /\ TreatmentsOf(a.id) = {}

\* appointment id was completed by a create_treatment call
CompletedByTreatment(id) ==
    /\ \E a \in appts : a.id = id /\ a.status = "Completed"
    /\ \E t \in NewTreatments : t.appointment_id = id

\* C10 as stated: after a successful create_treatment for id, a second call
\* for id fails with "Treatment record already exists", and the Treatment
\* and the status are unchanged.
SecondTreatmentAlreadyExists ==
    [][\A p \in Workers, id \in AppointmentIds, dg \in Diagnoses :
          (create_treatment(p, id, dg) /\ CompletedByTreatment(id))
          => (/\ req'[p] = Finish(TreatmentExists, 0)
              /\ treatments' = treatments
              /\ appts' = appts)]_vars

\* C10 as amended: after a successful create_treatment for id, a second
\* call for id fails with "Appointment cannot be completed. Current status:
\* Completed", and the Treatment and the status are unchanged.
SecondTreatmentWrongStatus ==
    [][\A p \in Workers, id \in AppointmentIds, dg \in Diagnoses :
          (create_treatment(p, id, dg) /\ CompletedByTreatment(id))
          => (/\ req'[p] = Finish(WrongStatus, 0)
              /\ treatments' = treatments
              /\ appts' = appts)]_vars

\* every Booked appointment of the seed has been completed by a call, and a
\* later call was refused for its status
SecondTreatmentWitness ==
    /\ \E p \in Workers : req[p].res = WrongStatus
    /\ \A a \in SeedAppointments : a.status = "Booked" => CompletedByTreatment(a.id)

\* C11: in every reachable state at most one Treatment references any
\* appointment id; when the commit of a create_treatment call runs while a
\* Treatment already references its appointment (two interleaved calls
\* having both passed the status and existing-treatment checks), the call
\* returns (False, message, None) and leaves treatments and appointments as
\* they were.
OneTreatmentPerAppointment ==
    /\ [](\A id \in AppointmentIds : Cardinality(TreatmentsOf(id)) <= 1)
    /\ [][\A p \in Workers :
            (/\ req[p].pc = "commit_treatment"
             /\ Steps(p)
             /\ TreatmentsOf(req[p].appt) # {})
            => (/\ req'[p] = Finish(StoreError, 0)
                /\ treatments' = treatments
                /\ treatSeq' = treatSeq
                /\ appts' = appts)]_vars

\* of two interleaved calls for one appointment, one has created the
\* Treatment and the commit of the other has failed
OneTreatmentPerAppointmentWitness ==
    \E p \in Workers :
        /\ req[p].pc = "done"
        /\ req[p].res = StoreError
        /\ \E t \in NewTreatments :
              \E a \in appts : a.id = t.appointment_id /\ a.status = "Completed"

\* the dates of the slots and of the availability calls
SlotDates == Dates \cup {k[2] : k \in SlotKeys}

\* the slot worker p looked up has not been written since: no slot has the
\* key if it found none, and the row it found is as it was
RowAsLoaded(p) ==
    IF req[p].slot = 0
    THEN ~ \E s \in slots : /\ s.doctor = req[p].doctor
                            /\ s.date = req[p].date
                            /\ s.start = req[p].time
    ELSE \E s \in slots : /\ s.id = req[p].slot
                          /\ s.doctor = req[p].doctor
                          /\ s.date = req[p].date
                          /\ s.start = req[p].time
                          /\ s.end = req[p].slot_end
                          /\ s.avail = req[p].slot_avail

\* C12: for every doctor D, date d and time t, is_available_on(D, d, t) is
\* true iff a slot of D on d is marked available and has startTime <= t <=
\* endTime; when set_doctor_availability(D, d, start, end) with start < end
\* returns, no other call having written its slot since it looked the slot
\* up, such a slot exists for every t in [start, end].
AvailabilityMatchesSlots ==
    /\ [](\A D \in DoctorIds, d \in SlotDates, t \in Times :
             is_available_on(D, d, t) <=> IsAvailableAt(D, d, t))
    /\ [][\A p \in Workers :
            (/\ req[p].pc = "upsert_slot"
             /\ Steps(p)
             /\ req'[p].res \in {ReturnedNone, AvailabilityAdded}
             /\ req[p].time < req[p].end
             /\ RowAsLoaded(p))
            => \A t \in Times :
                  (req[p].time <= t /\ t <= req[p].end)
                  => \E s \in slots' : /\ s.doctor = req[p].doctor
                                       /\ s.date = req[p].date
                                       /\ s.avail
                                       /\ s.start <= t
                                       /\ t <= s.end]_vars

\* a call has returned, and a time is covered for one doctor on one date
\* while the same time is covered neither for that doctor on another date
\* nor for another doctor on that date
AvailabilityMatchesSlotsWitness ==
    /\ \E p \in Workers : req[p].pc = "done" /\ req[p].res = ReturnedNone
    /\ is_available_on(1, 2, 3)
    /\ ~ is_available_on(1, 1, 3)
    /\ ~ is_available_on(2, 2, 3)

\* the rows of a slot table with key (doctorId, date, startTime)
KeyRows(rows, doc, d, st) ==
    {s \in rows : s.doctor = doc /\ s.date = d /\ s.start = st}

\* C13: when set_doctor_availability(D, d, start, e2) finds the one slot an
\* earlier call left for (D, d, start) and commits it as found, there is
\* still exactly
\* one slot for that key, the same row, with end time e2 and marked
\* available, so that the key covers exactly the times in [start, e2]; every
\* other slot is unchanged; and when the slot already had end time e2 and
\* was available the slot table is unchanged.  A call that finds no slot
\* for the key, none existing, leaves exactly one, with end time e2.
UpsertOverwrites ==
    [][\A p \in Workers :
          (req[p].pc = "upsert_slot" /\ Steps(p)) =>
              LET K == KeyRows(slots, req[p].doctor, req[p].date, req[p].time)
                  L == KeyRows(slots', req[p].doctor, req[p].date, req[p].time)
              IN  /\ (Cardinality(K) = 1 /\ req[p].slot # 0 /\ RowAsLoaded(p))
                     => (/\ Cardinality(L) = 1
                         /\ \A s \in L : /\ s.id = req[p].slot
                                         /\ s.end = req[p].end
                                         /\ s.avail
                         /\ \A t \in Times :
                               (\E s \in L : s.avail /\ s.start <= t /\ t <= s.end)
                               <=> (req[p].time <= t /\ t <= req[p].end)
                         /\ slots \ K = slots' \ L
                         /\ (\A s \in K : s.end = req[p].end /\ s.avail)
                            => slots' = slots)
                  /\ (K = {} /\ req[p].slot = 0)
                     => (/\ Cardinality(L) = 1
                         /\ \A s \in L : s.end = req[p].end /\ s.avail
                         /\ slots' \ L = slots)]_vars

\* a call has overwritten the end time of the seeded slot with a later one
\* and returned, a call has created the slot of another key, and each key
\* has one slot
UpsertOverwritesWitness ==
    /\ \E p \in Workers : req[p].pc = "done" /\ req[p].res = ReturnedNone
    /\ \E s \in slots : s.id = 1 /\ s.end = 3
    /\ \E s \in slots : s.id > 1
    /\ \A k \in SlotKeys : Cardinality(KeyRows(slots, k[1], k[2], k[3])) <= 1

\* C14: in every reachable state, interleaved set_doctor_availability calls
\* with the same key included, at most one slot row exists per (doctorId,
\* date, startTime).
AtMostOneSlotPerKey ==
    \A a, b \in slots :
        (a.doctor = b.doctor /\ a.date = b.date /\ a.start = b.start) => a.id = b.id

\* worker p takes a step of a booking request
BookingStep(p) ==
    \/ req[p].pc \in {"check_double", "check_avail", "insert"} /\ Steps(p)
    \/ \E pat \in PatientIds, doc \in DoctorIds, d \in Dates, t \in Times :
          book_appointment(p, pat, doc, d, t)

\* C15: no step of a booking changes a slot, a treatment, a doctor or an
\* existing appointment; a rejected booking adds no appointment and a
\* successful one adds exactly the appointment it returns; and a booking
\* whose time is covered by an available slot passes the availability
\* check whatever Booked appointments the slot window already holds.
BookingAddsOneAppointment ==
    [][\A p \in Workers :
          /\ BookingStep(p)
             => (/\ slots' = slots
                 /\ treatments' = treatments
                 /\ doctors' = doctors
                 /\ appts \subseteq appts'
                 /\ IF req'[p].res = Booked
                    THEN \E a \in appts' : /\ a.id = req'[p].ret
                                           /\ a \notin appts
                                           /\ appts' = appts \cup {a}
                    ELSE appts' = appts)
          /\ (/\ req[p].pc = "check_avail"
              /\ Steps(p)
              /\ \E s \in slots :
                    /\ s.doctor = req[p].doctor /\ s.date = req[p].date /\ s.avail
                    /\ s.start <= req[p].time /\ req[p].time <= s.end
                    /\ \E a \in appts :
                          /\ a.status = "Booked" /\ a.doctor = s.doctor
                          /\ a.date = s.date /\ a.time # req[p].time
                          /\ s.start <= a.time /\ a.time <= s.end)
             => req'[p].pc = "insert"]_vars

\* two bookings at different times of one slot window have both succeeded
\* and the slot is still available
BookingAddsOneAppointmentWitness ==
    \E a, b \in NewAppts, s \in slots, p \in Workers :
        /\ a.status = "Booked" /\ b.status = "Booked"
        /\ a.doctor = s.doctor /\ b.doctor = s.doctor
        /\ a.date = s.date /\ b.date = s.date
        /\ a.time # b.time
        /\ s.start <= a.time /\ a.time <= s.end
        /\ s.start <= b.time /\ b.time <= s.end
        /\ s.avail
        /\ req[p].res = Booked /\ req[p].ret = b.id /\ a.id < b.id

\* C16: an appointment that exists in a state exists in the next one, with
\* the same patient, doctor, date and time, whatever operation takes the
\* step (deleting a doctor included).
AppointmentsNeverDeleted ==
    [][\A a \in appts :
          \E b \in appts' : /\ b.id = a.id
                            /\ b.patient = a.patient
                            /\ b.doctor = a.doctor
                            /\ b.date = a.date
                            /\ b.time = a.time]_vars

\* a cancel request reads the appointment, one of owned (the requester's
\* appointments with the requested id): a terminal status ends the request
\* with nothing changed, the status Booked takes it to mark_cancelled with
\* the supplied reason
CancelChecked(p, reason, owned) ==
    /\ UNCHANGED store
    /\ \A a \in owned :
          /\ a.status \in {"Cancelled", "Completed"}
             => req'[p] = Finish(WrongStatus, 0)
          /\ a.status = "Booked"
             => (/\ req'[p].pc = "mark_cancelled"
                 /\ req'[p].appt = a.id
                 /\ req'[p].text = reason)

\* C17: a cancel request that finds its appointment Booked sets the status
\* to Cancelled and stores the supplied reason, changing no other
\* appointment, no slot and no treatment; a cancel request that finds its
\* appointment Cancelled or Completed changes nothing.
CancelChangesOnlyItsAppointment ==
    [][\A p \in Workers :
          /\ \A pat \in PatientIds, id \in AppointmentIds, rs \in PatientReasons :
                patient_cancel_appointment(p, pat, id, rs)
                => CancelChecked(p, rs, {a \in appts : a.id = id /\ a.patient = pat})
          /\ \A doc \in SeedDoctors, id \in AppointmentIds, rs \in DoctorReasons :
                doctor_cancel_appointment(p, doc, id, rs)
                => CancelChecked(p, rs, {a \in appts : a.id = id /\ a.doctor = doc})
          /\ (req[p].pc = "mark_cancelled" /\ Steps(p))
             => (/\ \A a \in appts :
                       IF a.id = req[p].appt
                       THEN [a EXCEPT !.status = "Cancelled", !.reason = req[p].text]
                                \in appts'
                       ELSE a \in appts'
                 /\ Cardinality(appts') = Cardinality(appts)
                 /\ slots' = slots
                 /\ treatments' = treatments
                 /\ req'[p] = Finish(Cancelled, 0))]_vars

\* a doctor has cancelled a Booked appointment, whose reason is stored, and
\* a later cancel request for a terminal appointment was refused
CancelChangesOnlyItsAppointmentWitness ==
    /\ \E a \in appts : a.status = "Cancelled" /\ a.reason \in DoctorReasons
    /\ \E p, q \in Workers :
          /\ req[p].res = Cancelled
          /\ req[q].res = WrongStatus

\* C18: in every reachable state every availability slot has startTime <
\* endTime, after any sequence of add-availability requests, slot deletions
\* and purges.
SlotStartBeforeEnd == \A s \in slots : s.start < s.end

\* C19: remove_past_availability deletes the slots whose date is before
\* today and no other: afterwards no slot has date < today, every slot with
\* date >= today is as it was, appointments and treatments are unchanged,
\* and a second run straight after would delete nothing.
PurgeRemovesPast ==
    [][\A p \in Workers :
          remove_past_availability(p) =>
              /\ slots' = {s \in slots : s.date >= today}
              /\ \A s \in slots' : s.date >= today
              /\ PastRemoved(slots', today) = slots'
              /\ appts' = appts
              /\ treatments' = treatments
              /\ doctors' = doctors
              /\ req'[p] = Finish(Purged, 0)]_vars

\* on the second day a purge has run: the first day's slots are gone, a
\* slot of a later date is there, and the first day's appointment is too
PurgeRemovesPastWitness ==
    /\ today = 2
    /\ \E p \in Workers : req[p].pc = "done" /\ req[p].res = Purged
    /\ slots # {}
    /\ \A s \in slots : s.date >= today
    /\ \E a \in appts : a.date < today /\ a.status = "Booked"

\* the values create_appointment and create_treatment return with
\* success = False
FailureMessages ==
    {AlreadyBooked, NotAvailable, CreateError, AppointmentNotFound, WrongStatus,
     TreatmentExists, StoreError}

\* C20: every step on which create_appointment or create_treatment ends
\* returns a value: (True, message, the new row) or (False, message, None);
\* a step that returns a failure, the write of either operation failing in
\* the store included, leaves appointments, treatments and statuses as they
\* were; and the write either goes through or so fails.
CoreOperationsReturnFailure ==
    [][\A p \in Workers :
          /\ (req[p].pc # "done" /\ req'[p].pc = "done")
             => \/ /\ req'[p].res = Booked
                   /\ \E a \in appts' \ appts : a.id = req'[p].ret
                \/ /\ req'[p].res = Treated
                   /\ \E t \in treatments' \ treatments : t.id = req'[p].ret
                \/ /\ req'[p].res \in FailureMessages
                   /\ req'[p].ret = 0
                   /\ appts' = appts
                   /\ treatments' = treatments
                   /\ slots' = slots
          /\ (req[p].pc \in {"insert", "commit_treatment"} /\ Steps(p))
             => req'[p].pc = "done"]_vars

\* the write of a create_appointment call and the write of a
\* create_treatment call have failed, and the store holds what it held
CoreOperationsReturnFailureWitness ==
    /\ \E p, q \in Workers :
          /\ req[p].pc = "done" /\ req[p].res = CreateError
          /\ req[q].pc = "done" /\ req[q].res = StoreError
    /\ appts = SeedAppointments
    /\ treatments = SeedTreatments

\* C21: an add-availability request goes on to create or update a slot,
\* with the date and times of its form, only when every field parses, the
\* date lies in [today, today+7] and the end time is after the start time;
\* any other request is rejected and leaves the slots unchanged; and every
\* slot written for such a request is written with an end time after the
\* start time of the form.
AvailabilityValidated ==
    [][\A p \in Workers :
          /\ \A f \in AvailabilityForms \cup MalformedForms :
                post_add_availability(p, 1, f[1], f[2], f[3]) =>
                    IF /\ f[1] >= 0 /\ f[2] >= 0 /\ f[3] >= 0
                       /\ today <= f[1]
                       /\ f[1] <= today + BookingWindowDays
                       /\ f[2] < f[3]
                    THEN /\ req'[p].pc = "lookup_slot"
                         /\ req'[p].date = f[1]
                         /\ req'[p].time = f[2]
                         /\ req'[p].end = f[3]
                         /\ slots' = slots
                    ELSE /\ req'[p] = Finish(AvailabilityError, 0)
                         /\ slots' = slots
          /\ (/\ req[p].op = "add_availability"
              /\ Steps(p)
              /\ slots' # slots)
             => (/\ req[p].pc = "upsert_slot"
                 /\ req[p].time < req[p].end
                 /\ req[p].date >= 0)]_vars

\* a form with a missing field was rejected, and a form that passed the
\* checks has added a slot
AvailabilityValidatedWitness ==
    /\ \E p \in Workers : req[p].pc = "done" /\ req[p].res = AvailabilityError
    /\ \E p \in Workers : req[p].pc = "done" /\ req[p].res = AvailabilityAdded
    /\ \E s \in slots : s.id > 1
    /\ slots \cap SeedSlots = SeedSlots

\* the values of appointments.status
Statuses == {"Booked", "Completed", "Cancelled"}

\* C22: can_be_completed() and can_be_cancelled() each return true exactly
\* when the status is Booked, false for Completed and Cancelled, for every
\* status and for every appointment of every reachable state; and the step
\* of a cancel or completion request on which they are called changes
\* nothing in the store.
StatusPredicatesPure ==
    /\ [](/\ \A st \in Statuses :
               /\ can_be_completed([status |-> st]) <=> st = "Booked"
               /\ can_be_cancelled([status |-> st]) <=> st = "Booked"
          /\ \A a \in appts :
               /\ a.status \in Statuses
               /\ can_be_completed(a) <=> a.status = "Booked"
               /\ can_be_cancelled(a) <=> a.status = "Booked")
    /\ [][\A p \in Workers :
            (/\ req[p].pc = "idle"
             /\ \/ req'[p].pc \in {"mark_cancelled", "check_existing"}
                \/ req'[p].res = WrongStatus)
            => UNCHANGED store]_vars

\* one request was let through by can_be_cancelled() while another was
\* refused, and appointments of all three statuses exist
StatusPredicatesPureWitness ==
    /\ \E p, q \in Workers :
          /\ req[p].pc = "mark_cancelled"
          /\ req[q].pc = "done" /\ req[q].res = WrongStatus
    /\ \A st \in Statuses : \E a \in appts : a.status = st

\* the caller of worker p's request owns appointment a
RequestedByOwner(p, a) ==
    /\ req[p].op = "patient_cancel" => req[p].patient = a.patient
    /\ req[p].op \in {"doctor_cancel", "complete_appointment"} =>
          req[p].doctor = a.doctor

GuardedRoles == {"admin", "doctor", "patient"}

\* the session of browser c belongs to a stored, active user with this role
ActiveWithRole(c, role) ==
    \E u \in users : u.id = sessions[c] /\ u.active /\ u.role = role

\* the session of browser c belongs to a stored user that is deactivated
Deactivated(c) == \E u \in users : u.id = sessions[c] /\ ~ u.active

\* C24: a request to a handler guarded for a role reaches the handler
\* exactly when the session's user is stored, active and has that role, as
\* they are when the request arrives; a request of a deactivated user, with
\* whatever session, is redirected with the handler not run; and a login
\* with the name of a deactivated user is refused and opens no session.
GuardedByRole ==
    [][\A p \in Workers, c \in Clients :
          /\ \A r \in GuardedRoles :
                guarded_request(p, c, r) =>
                    /\ req'[p].pc = "handler" <=> ActiveWithRole(c, r)
                    /\ ~ ActiveWithRole(c, r) => req'[p].pc = "done"
                    /\ Deactivated(c) => req'[p] = Finish(DeactivatedRedirect, 0)
          /\ toggle_patient_active(p, c, 1) =>
                /\ req'[p].pc = "toggle_commit" => ActiveWithRole(c, "admin")
                /\ Deactivated(c) => req'[p] = Finish(DeactivatedRedirect, 0)
          /\ \A n \in {"admin", "patient"}, ok \in BOOLEAN :
                (login(p, c, n, ok) /\ \E u \in users : u.username = n /\ ~ u.active)
                => /\ req'[p] = Finish(DeactivatedLogin, 0)
                   /\ sessions' = sessions]_vars

\* a browser holds a session of a user deactivated since, one of its
\* requests was redirected because of it, and another request ran a handler
GuardedByRoleWitness ==
    /\ \E c \in Clients : Deactivated(c)
    /\ \E p \in Workers : req[p].pc = "done" /\ req[p].res = DeactivatedRedirect
    /\ \E p \in Workers : req[p].pc = "done" /\ req[p].res \in {HandlerRan, Toggled}

\* the appointments at the (doctorId, date, time) of appointment a that are
\* Cancelled or Completed
TerminalAt(doc, d, t) ==
    {a \in appts : /\ a.doctor = doc /\ a.date = d /\ a.time = t
                   /\ a.status \in {"Cancelled", "Completed"}}

\* C25: the double-booking check of a booking refuses exactly when a Booked
\* appointment holds its (doctorId, date, time), however many Cancelled or
\* Completed ones are there; when the only Booked appointment of a triple is
\* cancelled or completed the triple is free from that step on; and a
\* booking that reaches its insert adds a Booked appointment next to the
\* Cancelled and Completed ones of its triple, which stay.
OnlyBookedBlocks ==
    [][/\ \A p \in Workers :
            /\ (req[p].pc = "check_double" /\ Steps(p)) =>
                  /\ req'[p].res = AlreadyBooked
                        <=> BookedAt(req[p].doctor, req[p].date, req[p].time)
                  /\ ~ BookedAt(req[p].doctor, req[p].date, req[p].time)
                        => req'[p].pc = "check_avail"
            /\ (req[p].pc = "insert" /\ Steps(p)) =>
                  /\ \E b \in appts' \ appts :
                        /\ b.doctor = req[p].doctor /\ b.date = req[p].date
                        /\ b.time = req[p].time /\ b.status = "Booked"
                  /\ TerminalAt(req[p].doctor, req[p].date, req[p].time) \subseteq appts'
       /\ \A a \in appts :
            (/\ a.status = "Booked"
             /\ \E b \in appts' : b.id = a.id /\ b.status \in {"Cancelled", "Completed"}
             /\ \A c \in appts : (/\ c.doctor = a.doctor /\ c.date = a.date
                                    /\ c.time = a.time /\ c.status = "Booked")
                                   => c.id = a.id)
            => ~ \E c \in appts' : /\ c.doctor = a.doctor /\ c.date = a.date
                                    /\ c.time = a.time /\ c.status = "Booked"]_vars

\* a triple was booked, that appointment cancelled or completed, and the
\* triple booked again: both appointments are stored
OnlyBookedBlocksWitness ==
    \E a, b \in appts :
        /\ a.doctor = b.doctor /\ a.date = b.date /\ a.time = b.time
        /\ a.id < b.id
        /\ a.status \in {"Cancelled", "Completed"}
        /\ a \in NewAppts
        /\ b.status = "Booked"
        /\ \E p \in Workers : req[p].pc = "done" /\ req[p].res = Booked /\ req[p].ret = b.id

\* C26: in every reachable state every appointment's doctorId, and every
\* availability slot's, is the id of a stored doctor record.
AppointmentsReferToDoctors ==
    /\ \A a \in appts : a.doctor \in doctors
    /\ \A s \in slots : s.doctor \in doctors

\* appointment a is Booked and an available slot of these rows covers it
CoveredBooked(a, rows) ==
    /\ a.status = "Booked"
    /\ \E s \in rows : /\ s.doctor = a.doctor /\ s.date = a.date /\ s.avail
                        /\ s.start <= a.time /\ a.time <= s.end

\* C27: a step that changes the availability slots (a slot deleted, a slot's
\* end time moved by an upsert, past slots purged) leaves the appointments
\* and the treatments exactly as they were, and so does every other step of
\* an availability request; a Booked appointment that loses its slot stays
\* Booked at its date and time.
AvailabilityLeavesAppointments ==
    [][/\ slots' # slots => UNCHANGED <<appts, apptSeq, treatments, treatSeq>>
       /\ \A p \in Workers :
            (/\ Steps(p)
             /\ \/ req[p].op \in {"add_availability", "delete_availability"}
                \/ req'[p].op \in {"add_availability", "delete_availability"}
                \/ req'[p].res \in {Purged, AvailabilityError, AvailabilityDeleted})
            => UNCHANGED <<appts, apptSeq, treatments, treatSeq>>
       /\ \A a \in appts :
            (CoveredBooked(a, slots) /\ ~ CoveredBooked(a, slots')) => a \in appts']_vars

\* slots were added and removed, and a Booked appointment is left that no
\* slot covers
AvailabilityLeavesAppointmentsWitness ==
    /\ \E p \in Workers : req[p].pc = "done" /\ req[p].res = AvailabilityAdded
    /\ \E p \in Workers :
          req[p].pc = "done" /\ req[p].res \in {AvailabilityDeleted, Purged}
    /\ \E a \in appts : a.status = "Booked" /\ ~ CoveredBooked(a, slots)
    /\ slots # SeedSlots

\* today <= d <= today + 7
InEightDays(d) == today <= d /\ d <= today + BookingWindowDays

\* C28: on every day and for every date d, the window check of the booking
\* form passes iff the window check of the add-availability form passes iff
\* today <= d <= today + 7, and an available slot is returned by
\* get_availability_for_next_7_days iff its date is in that window; so a
\* date admitted for a new slot is admitted for a booking on the same day
\* and the booking form lists exactly the doctor's available slots in it.
WindowsAgree ==
    /\ [](/\ \A d \in Dates :
               /\ InBookingWindow(d, today) <=> InAvailabilityWindow(d, today)
               /\ InBookingWindow(d, today) <=> InEightDays(d)
          /\ \A s \in slots :
               s \in get_availability_for_next_7_days(s.doctor, today)
                   <=> (s.avail /\ InEightDays(s.date)))
    /\ [][\A p \in Workers :
            /\ (req[p].pc = "idle" /\ req'[p].pc = "lookup_slot")
               => InBookingWindow(req'[p].date, today)
            /\ (req[p].pc = "idle" /\ req'[p].pc = "check_double")
               => InAvailabilityWindow(req'[p].date, today)
            /\ (req[p].pc = "idle" /\ req'[p].res = FormShown)
               => req'[p].shown =
                    {s.id : s \in {r \in slots : /\ r.doctor = 1 /\ r.avail
                                                /\ InEightDays(r.date)}}
            /\ \A d \in Dates :
                  /\ post_add_availability(p, 1, d, 1, 2)
                     => (req'[p].pc = "lookup_slot" <=> InEightDays(d))
                  /\ book_appointment(p, 1, 1, d, 1)
                     => (req'[p].pc = "check_double" <=> InEightDays(d))]_vars

\* a slot on the last day of the window was added, is listed by the booking
\* form and has been booked
WindowsAgreeWitness ==
    \E s \in slots :
        /\ s.date = today + BookingWindowDays
        /\ \E p \in Workers :
              req[p].pc = "done" /\ req[p].res = FormShown /\ s.id \in req[p].shown
        /\ \E a \in NewAppts :
              a.doctor = s.doctor /\ a.date = s.date /\ a.status = "Booked"

\* C29: in every reachable state every user with role patient has exactly
\* one patient profile and every user with role doctor exactly one doctor
\* profile, every profile refers to a stored user, and no two users share a
\* username or an email.
ProfilesMatchUsers ==
    /\ \A u \in users :
          /\ u.role = "patient" => Cardinality({r \in patients : r.user = u.id}) = 1
          /\ u.role = "doctor" => Cardinality({d \in doctorUser : d.user = u.id}) = 1
    /\ \A r \in patients \cup doctorUser : \E u \in users : u.id = r.user
    /\ \A u, v \in users :
          (u.username = v.username \/ u.email = v.email) => u = v

\* C30: the stored count of a client never exceeds max_requests.
CountWithinLimit ==
    \A e \in request_counts : e.count <= max_requests

====
